---- MODULE Spec2Model ----
(***************************************************************************)
(* Model of the Terraform resource extractor                               *)
(*   src/terraform_parser_openai.py        (regex parser + aggregation)    *)
(*   src/terraform_parser_openai_crew.py   (crew front end, reply parsing) *)
(*   src/terraform_parser_openai_prompt.py (OpenAI front end)              *)
(*                                                                         *)
(* A text (a file's content, a service reply, a path) is a sequence of     *)
(* tokens.  A token stands for a run of characters that no pattern of the  *)
(* code can split: a punctuation character, one whitespace character, or   *)
(* a word.  The keyword `resource` is the two tokens "re","source",        *)
(* because the module pattern's literal `source` matches inside it.        *)
(***************************************************************************)
EXTENDS Integers, Sequences, FiniteSets, TLC

VARIABLES
    fs,                \* the filesystem: path -> [readable, content]
    entry,             \* which entry point is running
    pc,                \* position inside the entry point
    terraform_files,   \* the discovered paths, in glob order
    idx,               \* index of the next file of the parse loop
    all_resources,     \* records accumulated by the parse loop
    resource_types,    \* type name -> count
    resource_count,    \* TerraformProjectResources.resource_count
    file_contents,     \* crew/openai: the (path, content) pairs that were read
    reply,             \* crew/openai: the summarization service's reply
    llm_calls,         \* number of calls made to the summarization service
    result,            \* the value handed back to the caller
    earlier            \* what the earlier calls on the same input handed back

vars == <<fs, entry, pc, terraform_files, idx, all_resources, resource_types,
          resource_count, file_contents, reply, llm_calls, result, earlier>>

----------------------------------------------------------------------------
(* Bounds of the model.                                                    *)

\* chunks per file text in the single-file specification
MaxChunks == 3
\* paths of the directory tree in the directory-scan specification
MaxFiles == 3
\* items in a service reply
MaxReplyItems == 2
\* tokens of a module source string in the normalization specification
MaxSourceLen == 4
\* further calls made on the same input after the first one
MaxReruns == 1

----------------------------------------------------------------------------
(* Tokens and small helpers.                                               *)

sp == " "
nl == "\n"
dq == "\""
WS == {sp, nl}

Min(S) == CHOOSE x \in S : \A y \in S : x <= y
Max(S) == CHOOSE x \in S : \A y \in S : x >= y

\* Leftmost index >= p whose token is not in S; Len(t)+1 when there is none.
SkipWhile(t, p, S) ==
    LET stops == {i \in p..Len(t) : t[i] \notin S}
    IN  IF stops = {} THEN Len(t) + 1 ELSE Min(stops)

\* Leftmost index >= p whose token is in S; Len(t)+1 when there is none.
ScanUntil(t, p, S) ==
    LET hits == {i \in p..Len(t) : t[i] \in S}
    IN  IF hits = {} THEN Len(t) + 1 ELSE Min(hits)

TokenAt(t, p, tok) == p >= 1 /\ p <= Len(t) /\ t[p] = tok

NoMatch == [ok |-> FALSE]

\* `\s+` at p: the index after the (greedy) whitespace run; 0 when the run is empty.
Spaces1(t, p) ==
    LET e == SkipWhile(t, p, WS)
    IN  IF e > p THEN e ELSE 0

\* `"([^"]+)"` at p.
QuotedAt(t, p) ==
    IF ~TokenAt(t, p, dq) THEN NoMatch
    ELSE LET q == ScanUntil(t, p + 1, {dq})
         IN  IF q > Len(t) \/ q = p + 1 THEN NoMatch
             ELSE [ok |-> TRUE, val |-> SubSeq(t, p + 1, q - 1), end |-> q + 1]

----------------------------------------------------------------------------
(* The resource pattern  resource\s+"([^"]+)"\s+"([^"]+)"                  *)

ResourceMatchAt(t, p) ==
    IF ~(TokenAt(t, p, "re") /\ TokenAt(t, p + 1, "source")) THEN NoMatch
    ELSE LET a == Spaces1(t, p + 2)
         IN  IF a = 0 THEN NoMatch
             ELSE LET q1 == QuotedAt(t, a)
                  IN  IF ~q1.ok THEN NoMatch
                      ELSE LET b == Spaces1(t, q1.end)
                           IN  IF b = 0 THEN NoMatch
                               ELSE LET q2 == QuotedAt(t, b)
                                    IN  IF ~q2.ok THEN NoMatch
                                        ELSE [ok |-> TRUE, g1 |-> q1.val,
                                              g2 |-> q2.val, end |-> q2.end]

\* re.finditer: leftmost matches, left to right, non-overlapping.
RECURSIVE ResourceMatches(_, _)
ResourceMatches(t, p) ==
    IF p > Len(t) THEN << >>
    ELSE LET m == ResourceMatchAt(t, p)
         IN  IF m.ok THEN <<m>> \o ResourceMatches(t, m.end)
             ELSE ResourceMatches(t, p + 1)

----------------------------------------------------------------------------
(* The module pattern  module\s+"([^"]+)"\s+{[^}]*source\s+=\s+"([^"]+)"   *)

\* The tail  source\s+=\s+"([^"]+)"  at j.
SourceTailAt(t, j) ==
    IF ~TokenAt(t, j, "source") THEN NoMatch
    ELSE LET a == Spaces1(t, j + 1)
         IN  IF a = 0 \/ ~TokenAt(t, a, "=") THEN NoMatch
             ELSE LET b == Spaces1(t, a + 1)
                  IN  IF b = 0 THEN NoMatch ELSE QuotedAt(t, b)

\* Greedy [^}]* runs to the first close brace (or the end of the text) and
\* backtracks: the tail that matches is the LAST one starting before that brace.
LastSource(t, c, e) ==
    LET J == {j \in c..(e - 1) : SourceTailAt(t, j).ok}
    IN  IF J = {} THEN NoMatch ELSE SourceTailAt(t, Max(J))

ModuleMatchAt(t, p) ==
    IF ~TokenAt(t, p, "module") THEN NoMatch
    ELSE LET a == Spaces1(t, p + 1)
         IN  IF a = 0 THEN NoMatch
             ELSE LET q1 == QuotedAt(t, a)
                  IN  IF ~q1.ok THEN NoMatch
                      ELSE LET b == Spaces1(t, q1.end)
                           IN  IF b = 0 \/ ~TokenAt(t, b, "{") THEN NoMatch
                               ELSE LET e == ScanUntil(t, b + 1, {"}"})
                                        s == LastSource(t, b + 1, e)
                                    IN  IF ~s.ok THEN NoMatch
                                        ELSE [ok |-> TRUE, g1 |-> q1.val,
                                              g2 |-> s.val, end |-> s.end]

RECURSIVE ModuleMatches(_, _)
ModuleMatches(t, p) ==
    IF p > Len(t) THEN << >>
    ELSE LET m == ModuleMatchAt(t, p)
         IN  IF m.ok THEN <<m>> \o ModuleMatches(t, m.end)
             ELSE ModuleMatches(t, p + 1)

----------------------------------------------------------------------------
(* Records and the parser.                                                 *)

\* The default of TerraformResource.module_source.
None == <<"<None>">>

\* str.split('/')
RECURSIVE Split(_)
Split(s) ==
    LET i == ScanUntil(s, 1, {"/"})
    IN  IF i > Len(s) THEN <<s>>
        ELSE <<SubSeq(s, 1, i - 1)>> \o Split(SubSeq(s, i + 1, Len(s)))

module_type_last(module_source) ==
    LET source_parts == Split(module_source)
    IN  source_parts[Len(source_parts)]

module_type(module_source) ==
    LET source_parts == Split(module_source)
    IN  IF Len(source_parts) >= 2 THEN source_parts[Len(source_parts) - 1]
        ELSE module_source

ResourceRecord(m, file_path) ==
    [resource_type |-> m.g1, resource_name |-> m.g2,
     resource_id   |-> m.g1 \o <<".">> \o m.g2,
     file_path     |-> file_path, is_module |-> FALSE, module_source |-> None]

ModuleRecord_typed_id(m, file_path) ==
    [resource_type |-> module_type(m.g2), resource_name |-> m.g1,
     resource_id   |-> module_type(m.g2) \o <<".">> \o m.g1,
     file_path     |-> file_path, is_module |-> TRUE, module_source |-> None]

ModuleRecord(m, file_path) ==
    [resource_type |-> module_type(m.g2), resource_name |-> m.g1,
     resource_id   |-> <<"module", ".">> \o m.g1,
     file_path     |-> file_path, is_module |-> TRUE, module_source |-> m.g2]

\* The body of the try block once the content is read: pass A then pass B.
ExtractRecords(content, file_path) ==
    LET rs == ResourceMatches(content, 1)
        ms == ModuleMatches(content, 1)
    IN  [i \in 1..Len(rs) |-> ResourceRecord(rs[i], file_path)]
        \o [i \in 1..Len(ms) |-> ModuleRecord(ms[i], file_path)]

\* open() / read() may raise; the except clause of parse_terraform_file
\* catches every Exception, prints, and falls through to the return.
Readable(file_path) == file_path \in DOMAIN fs /\ fs[file_path].readable

parse_terraform_file_propagating(file_path) ==
    IF Readable(file_path)
    THEN [raised |-> FALSE,
          resources |-> ExtractRecords(fs[file_path].content, file_path)]
    ELSE [raised |-> TRUE, resources |-> << >>]

parse_terraform_file(file_path) ==
    IF Readable(file_path)
    THEN [raised |-> FALSE,
          resources |-> ExtractRecords(fs[file_path].content, file_path)]
    ELSE [raised |-> FALSE, resources |-> << >>]

----------------------------------------------------------------------------
(* Configuration text used as input.                                       *)

Q(s) == <<dq>> \o s \o <<dq>>
KwResource == <<"re", "source">>

Assign(k, v) == <<sp>> \o k \o <<sp, "=", sp>> \o Q(v) \o <<sp>>
Block(name, body) == <<sp>> \o name \o <<sp, "{">> \o body \o <<"}", sp>>
ResourceDecl(T, N, body) ==
    KwResource \o <<sp>> \o Q(T) \o <<sp>> \o Q(N) \o <<sp, "{">> \o body \o <<"}", nl>>
MalformedDecl(T, body) ==
    KwResource \o <<sp>> \o Q(T) \o <<sp, "{">> \o body \o <<"}", nl>>
ModuleDecl(N, body) ==
    <<"module", sp>> \o Q(N) \o <<sp, "{">> \o body \o <<"}", nl>>

Bucket == <<"aws_s3_bucket">>
SrcVpc == <<"terraform-aws-modules", "/", "vpc", "/", "aws">>
SrcOuter == <<"acme", "/", "outer", "/", "aws">>
SrcInner == <<"acme", "/", "inner", "/", "aws">>
SrcLate == <<"acme", "/", "late", "/", "aws">>
SrcStray == <<"acme", "/", "stray", "/", "aws">>
SrcLocal == <<".", "/", "modules", "/", "vpc">>

ChunkIds ==
    {"res_logs", "res_data", "res_logs_body", "res_bad", "mod_vpc", "mod_local",
     "mod_single", "mod_nested", "mod_late", "mod_nosrc", "locals_src",
     "var_text", "output"}

ChunkText(c) ==
    CASE c = "res_logs"      -> ResourceDecl(Bucket, <<"logs">>, << >>)
      [] c = "res_data"      -> ResourceDecl(Bucket, <<"data">>, << >>)
      [] c = "res_logs_body" -> ResourceDecl(Bucket, <<"logs">>,
                                             Assign(<<"acl">>, <<"private">>))
      [] c = "res_bad"       -> MalformedDecl(<<"bad_type">>, << >>)
      [] c = "mod_vpc"       -> ModuleDecl(<<"vpc">>, Assign(<<"source">>, SrcVpc))
      [] c = "mod_local"     -> ModuleDecl(<<"net">>, Assign(<<"source">>, SrcLocal))
      [] c = "mod_single"    -> ModuleDecl(<<"one">>, Assign(<<"source">>, <<"single">>))
      [] c = "mod_nested"    -> ModuleDecl(<<"outer">>,
                                    Assign(<<"source">>, SrcOuter)
                                    \o Block(<<"providers">>, Assign(<<"source">>, SrcInner)))
      [] c = "mod_late"      -> ModuleDecl(<<"late">>,
                                    Block(<<"tags">>, Assign(<<"env">>, <<"dev">>))
                                    \o Assign(<<"source">>, SrcLate))
      [] c = "mod_nosrc"     -> ModuleDecl(<<"bare">>, Assign(<<"count">>, <<"1">>))
      [] c = "locals_src"    -> <<"locals">> \o Block(<< >>, Assign(<<"source">>, SrcStray))
                                \o <<nl>>
      [] c = "var_text"      -> <<"variable", sp>> \o Q(<<"v">>) \o <<sp, "{">>
                                \o Assign(<<"description">>, <<"a", sp, "re", "source", sp>>)
                                \o Assign(<<"default">>, <<sp>>) \o <<"}", nl>>
      [] c = "output"        -> <<"output", sp>> \o Q(<<"o">>) \o <<sp, "{">>
                                \o Assign(<<"value">>, <<"1">>) \o <<"}", nl>>

RECURSIVE Flatten(_)
Flatten(cs) ==
    IF cs = << >> THEN << >> ELSE ChunkText(Head(cs)) \o Flatten(Tail(cs))

ChunkLists(n) == UNION {[1..k -> ChunkIds] : k \in 0..n}

Strings(alphabet, n) == UNION {[1..k -> alphabet] : k \in 1..n}
SourceAlphabet == {"a", "b", "/"}

MainTf == <<"main", ".tf">>

----------------------------------------------------------------------------
(* The directory tree.                                                     *)

PathList ==
    << MainTf, <<"sub", "/", "net", ".tf.json">>, <<"README", ".md">>,
       <<"sub", "/", "vars", ".tf">>, <<"notes", ".txt">> >>

NumPaths == IF MaxFiles < Len(PathList) THEN MaxFiles ELSE Len(PathList)
Paths == {PathList[i] : i \in 1..NumPaths}

\* Texts of the files of the directory-scan specification.
ProjectTexts ==
    { <<"output">>, <<"res_logs", "mod_vpc">>, <<"res_data">>,
      <<"res_bad", "mod_single">> }

FileStates ==
    {[readable |-> FALSE, content |-> << >>]}
    \cup {[readable |-> TRUE, content |-> Flatten(cs)] : cs \in ProjectTexts}

FileSystems == UNION {[D -> FileStates] : D \in SUBSET Paths}

Perms(S) ==
    {f \in [1..Cardinality(S) -> S] : \A i, j \in 1..Cardinality(S) : f[i] = f[j] => i = j}

\* glob.glob(os.path.join(directory, "**", extension), recursive=True):
\* the paths under the directory whose name ends with the extension.
GlobAnyFile(extension) == DOMAIN fs

Glob(extension) == {p \in DOMAIN fs : p[Len(p)] = extension}

\* The lists the two glob calls can give, in the orders the filesystem may
\* list them: '*.tf' first, then '*.tf.json'.
get_terraform_files ==
    {a \o b : a \in Perms(Glob(".tf")), b \in Perms(Glob(".tf.json"))}

----------------------------------------------------------------------------
(* analyze_terraform_project: the scan and the aggregation.                *)

EmptyMap == [t \in {} |-> 0]

\* One pass of the counting loop over the records rs, from the mapping m.
RECURSIVE CountFromReset(_, _)
CountFromReset(m, rs) ==
    IF rs = << >> THEN m
    ELSE LET t == Head(rs).resource_type
         IN  CountFromReset([x \in DOMAIN m \cup {t} |-> IF x = t THEN 1 ELSE m[x]],
                            Tail(rs))

RECURSIVE CountFrom(_, _)
CountFrom(m, rs) ==
    IF rs = << >> THEN m
    ELSE LET t == Head(rs).resource_type
         IN  CountFrom([x \in DOMAIN m \cup {t} |->
                            IF x = t THEN (IF t \in DOMAIN m THEN m[t] + 1 ELSE 1)
                            ELSE m[x]],
                       Tail(rs))

TypeSet(rs) == {rs[i].resource_type : i \in 1..Len(rs)}

\* all_resources = [] at the start of each call; the carried variant keeps
\* the list of the call before.
CarriedResources == all_resources

FreshResources == << >>

ProjectDiscover ==
    /\ entry = "project" /\ pc = "start"
    /\ all_resources' = FreshResources
    /\ terraform_files' \in get_terraform_files
    /\ idx' = 1
    /\ pc' = "parse"
    /\ UNCHANGED <<fs, entry, earlier, resource_types, resource_count,
                   file_contents, reply, llm_calls, result>>

ProjectParseFile ==
    /\ entry = "project" /\ pc = "parse" /\ idx <= Len(terraform_files)
    /\ LET r == parse_terraform_file(terraform_files[idx])
       IN  IF r.raised
           THEN pc' = "raised" /\ UNCHANGED <<idx, all_resources>>
           ELSE /\ all_resources' = all_resources \o r.resources
                /\ idx' = idx + 1
                /\ pc' = pc
    /\ UNCHANGED <<fs, entry, earlier, terraform_files, resource_types, resource_count,
                   file_contents, reply, llm_calls, result>>

ProjectCount ==
    /\ entry = "project" /\ pc = "parse" /\ idx > Len(terraform_files)
    /\ resource_types' = CountFrom(EmptyMap, all_resources)
    /\ pc' = "stats"
    /\ UNCHANGED <<fs, entry, earlier, terraform_files, idx, all_resources, resource_count,
                   file_contents, reply, llm_calls, result>>

ProjectReturn ==
    /\ entry = "project" /\ pc = "stats"
    /\ resource_count' = Len(all_resources)
    /\ result' \in Perms(TypeSet(all_resources))
    /\ pc' = "done"
    /\ UNCHANGED <<fs, entry, earlier, terraform_files, idx, all_resources, resource_types,
                   file_contents, reply, llm_calls>>

----------------------------------------------------------------------------
(* A single call of TerraformParser.parse_terraform_file.                  *)

ParseFileCall ==
    /\ entry = "parse_file" /\ pc = "start"
    /\ LET r == parse_terraform_file(MainTf)
       IN  IF r.raised THEN pc' = "raised" /\ UNCHANGED result
           ELSE result' = r.resources /\ pc' = "done"
    /\ UNCHANGED <<fs, entry, earlier, terraform_files, idx, all_resources, resource_types,
                   resource_count, file_contents, reply, llm_calls>>

----------------------------------------------------------------------------
(* A caller that calls the same function again on the same directory tree. *)
(* Every call starts at the top of the function; what the call before      *)
(* handed back and built is remembered in earlier for comparison only.        *)

Output ==
    [terraform_files |-> terraform_files, resources |-> all_resources,
     resource_count |-> resource_count, resource_types |-> resource_types,
     result |-> result]

ProjectCallAgain ==
    /\ entry = "project" /\ pc = "done" /\ Len(earlier) < MaxReruns
    /\ earlier' = Append(earlier, Output)
    /\ pc' = "start"
    /\ UNCHANGED <<fs, entry, terraform_files, idx, all_resources, resource_types,
                   resource_count, file_contents, reply, llm_calls, result>>

ParseFileCallAgain ==
    /\ entry = "parse_file" /\ pc = "done" /\ Len(earlier) < MaxReruns
    /\ earlier' = Append(earlier, Output)
    /\ pc' = "start"
    /\ UNCHANGED <<fs, entry, terraform_files, idx, all_resources, resource_types,
                   resource_count, file_contents, reply, llm_calls, result>>

----------------------------------------------------------------------------
(* The summarization service's reply and how the front ends decode it.     *)

RECURSIVE SplitOn(_, _)
SplitOn(s, sep) ==
    LET i == ScanUntil(s, 1, {sep})
    IN  IF i > Len(s) THEN <<s>>
        ELSE <<SubSeq(s, 1, i - 1)>> \o SplitOn(SubSeq(s, i + 1, Len(s)), sep)

\* str.strip(chars)
StripTokens(s, S) ==
    LET keep == {i \in 1..Len(s) : s[i] \notin S}
    IN  IF keep = {} THEN << >> ELSE SubSeq(s, Min(keep), Max(keep))

\* A JSON string: "..." with no quote inside.
IsJsonString(x) ==
    /\ Len(x) >= 2 /\ x[1] = dq /\ x[Len(x)] = dq
    /\ \A i \in 2..(Len(x) - 1) : x[i] # dq

\* The elements of a JSON array of strings, given the text between [ and ].
JsonArray(arr) ==
    IF StripTokens(arr, WS) = << >> THEN [ok |-> TRUE, items |-> << >>]
    ELSE LET pieces == SplitOn(arr, ",")
             strs == [i \in 1..Len(pieces) |-> StripTokens(pieces[i], WS)]
         IN  IF \A i \in 1..Len(strs) : IsJsonString(strs[i])
             THEN [ok |-> TRUE,
                   items |-> [i \in 1..Len(strs) |-> SubSeq(strs[i], 2, Len(strs[i]) - 1)]]
             ELSE NoMatch

\* json.loads of a text that is an object with at most the key "resources"
\* holding an array of strings; any other text raises.
JsonLoads(t) ==
    LET u == StripTokens(t, WS)
    IN  IF ~(Len(u) >= 2 /\ u[1] = "{" /\ u[Len(u)] = "}") THEN NoMatch
        ELSE LET inner == StripTokens(SubSeq(u, 2, Len(u) - 1), WS)
                 k == QuotedAt(inner, 1)
             IN  IF inner = << >>
                 THEN [ok |-> TRUE, has_resources |-> FALSE, resources |-> << >>]
                 ELSE IF ~k.ok \/ k.val # <<"resources">> THEN NoMatch
                 ELSE LET c == SkipWhile(inner, k.end, WS)
                          a == SkipWhile(inner, c + 1, WS)
                      IN  IF ~(TokenAt(inner, c, ":") /\ TokenAt(inner, a, "[")
                               /\ a < Len(inner) /\ inner[Len(inner)] = "]")
                          THEN NoMatch
                          ELSE LET arr == JsonArray(SubSeq(inner, a + 1, Len(inner) - 1))
                               IN  IF ~arr.ok THEN NoMatch
                                   ELSE [ok |-> TRUE, has_resources |-> TRUE,
                                         resources |-> arr.items]

\* TerraformAnalysisResult.model_validate_json: the whole text must be a JSON
\* object; a missing "resources" takes the default, the empty list.
model_validate_json(t) ==
    LET j == JsonLoads(t)
    IN  IF j.ok THEN [ok |-> TRUE, resources |-> j.resources] ELSE NoMatch

\* re.search(r'\{[^{}]*\}', result)
BraceSearch(t) ==
    LET P == {p \in 1..Len(t) :
                 /\ t[p] = "{"
                 /\ LET e == ScanUntil(t, p + 1, {"{", "}"})
                    IN  e <= Len(t) /\ t[e] = "}"}
    IN  IF P = {} THEN NoMatch
        ELSE [ok |-> TRUE,
              val |-> SubSeq(t, Min(P), ScanUntil(t, Min(P) + 1, {"{", "}"}))]

\* re.search(r'\[(.*?)\]', result): '.' does not match a newline.
ArraySearch(t) ==
    LET P == {p \in 1..Len(t) :
                 /\ t[p] = "["
                 /\ LET e == ScanUntil(t, p + 1, {"]", nl})
                    IN  e <= Len(t) /\ t[e] = "]"}
    IN  IF P = {} THEN NoMatch
        ELSE [ok |-> TRUE,
              val |-> SubSeq(t, Min(P) + 1, ScanUntil(t, Min(P) + 1, {"]", nl}) - 1)]

\* The decoding of terraform_crew.kickoff()'s result.
ParseCrewResult(t) ==
    LET v  == model_validate_json(t)
        jm == BraceSearch(t)
        jd == IF jm.ok THEN JsonLoads(jm.val) ELSE NoMatch
        am == ArraySearch(t)
    IN  IF v.ok THEN v.resources
        ELSE IF jd.ok /\ jd.has_resources THEN jd.resources
        ELSE IF am.ok
             THEN LET pieces == SplitOn(am.val, ",")
                  IN  [i \in 1..Len(pieces) |-> StripTokens(pieces[i], {sp, dq, "'"})]
        ELSE << >>

\* The replies the service is given to send.
RECURSIVE JoinQuoted(_)
JoinQuoted(items) ==
    IF items = << >> THEN << >>
    ELSE IF Len(items) = 1 THEN Q(items[1])
    ELSE Q(items[1]) \o <<",", sp>> \o JoinQuoted(Tail(items))

JsonList(items) == <<"[">> \o JoinQuoted(items) \o <<"]">>
JsonObject(items) ==
    <<"{">> \o Q(<<"resources">>) \o <<":", sp>> \o JsonList(items) \o <<"}">>

ReplyItems == {<<"aws_s3_bucket">>, <<"vpc">>}
ItemLists == UNION {[1..k -> ReplyItems] : k \in 0..MaxReplyItems}

Replies ==
    {JsonObject(l) : l \in ItemLists}
    \cup {<<"Here", sp, "it", sp, "is", ":", nl>> \o JsonObject(l) \o <<nl, "Done">> :
              l \in ItemLists}
    \cup {<<"Found", ":", sp>> \o JsonList(l) : l \in ItemLists}
    \cup {<<"no", sp, "idea">>, <<"{", "}">>}

----------------------------------------------------------------------------
(* The two front ends that ask the summarization service.                  *)

\* read_file_contents: the (path, content) pairs of the files that can be read;
\* a file that cannot is printed and skipped.
read_file_contents(file_paths) ==
    LET ok == SelectSeq(file_paths, Readable)
    IN  [i \in 1..Len(ok) |-> [path |-> ok[i], content |-> fs[ok[i]].content]]

\* analyze_terraform_with_crew, up to the early return.
CrewDiscover ==
    /\ entry = "crew" /\ pc = "start"
    /\ terraform_files' \in get_terraform_files
    /\ IF terraform_files' = << >>
       THEN result' = << >> /\ pc' = "done"
       ELSE pc' = "read" /\ UNCHANGED result
    /\ UNCHANGED <<fs, entry, earlier, idx, all_resources, resource_types, resource_count,
                   file_contents, reply, llm_calls>>

CrewRead ==
    /\ entry = "crew" /\ pc = "read"
    /\ file_contents' = read_file_contents(terraform_files)
    /\ pc' = "kickoff"
    /\ UNCHANGED <<fs, entry, earlier, terraform_files, idx, all_resources, resource_types,
                   resource_count, reply, llm_calls, result>>

CrewKickoff ==
    /\ entry = "crew" /\ pc = "kickoff"
    /\ reply' \in Replies
    /\ llm_calls' = llm_calls + 1
    /\ pc' = "decode"
    /\ UNCHANGED <<fs, entry, earlier, terraform_files, idx, all_resources, resource_types,
                   resource_count, file_contents, result>>

CrewDecode ==
    /\ entry = "crew" /\ pc = "decode"
    /\ result' = ParseCrewResult(reply)
    /\ pc' = "done"
    /\ UNCHANGED <<fs, entry, earlier, terraform_files, idx, all_resources, resource_types,
                   resource_count, file_contents, reply, llm_calls>>

\* main() of the OpenAI front end, up to its early return.
OpenAIDiscover ==
    /\ entry = "openai" /\ pc = "start"
    /\ terraform_files' \in get_terraform_files
    /\ pc' = IF terraform_files' = << >> THEN "exit" ELSE "read"
    /\ UNCHANGED <<fs, entry, earlier, idx, all_resources, resource_types, resource_count,
                   file_contents, reply, llm_calls, result>>

OpenAIRead ==
    /\ entry = "openai" /\ pc = "read"
    /\ file_contents' = read_file_contents(terraform_files)
    /\ pc' = "request"
    /\ UNCHANGED <<fs, entry, earlier, terraform_files, idx, all_resources, resource_types,
                   resource_count, reply, llm_calls, result>>

\* analyze_terraform_with_openai: the request fails, or it answers and the
\* answer is validated; every exception gives resources=[] with an error.
OpenAIAnalyze ==
    /\ entry = "openai" /\ pc = "request"
    /\ llm_calls' = llm_calls + 1
    /\ \/ /\ reply' = <<"<request failed>">>
          /\ result' = << >>
       \/ /\ reply' \in Replies
          /\ LET v == model_validate_json(reply')
             IN  result' = IF v.ok THEN v.resources ELSE << >>
    /\ pc' = "done"
    /\ UNCHANGED <<fs, entry, earlier, terraform_files, idx, all_resources, resource_types,
                   resource_count, file_contents>>

----------------------------------------------------------------------------
(* Specifications.                                                         *)

InitScalars ==
    /\ pc = "start" /\ terraform_files = << >> /\ idx = 1
    /\ all_resources = << >> /\ resource_types = EmptyMap /\ resource_count = 0
    /\ file_contents = << >> /\ reply = << >> /\ llm_calls = 0 /\ result = << >>
    /\ earlier = << >>

\* A directory tree handed to one of the three entry points.
Init ==
    /\ entry \in {"project", "crew", "openai"}
    /\ fs \in FileSystems
    /\ InitScalars

Next ==
    \/ ProjectDiscover \/ ProjectParseFile \/ ProjectCount \/ ProjectReturn
    \/ CrewDiscover \/ CrewRead \/ CrewKickoff \/ CrewDecode
    \/ OpenAIDiscover \/ OpenAIRead \/ OpenAIAnalyze

Spec == Init /\ [][Next]_vars

OneFile(content) == (MainTf :> [readable |-> TRUE, content |-> content])

\* One file, whose text is any concatenation of at most MaxChunks chunks.
InitParse ==
    /\ entry = "parse_file"
    /\ fs \in {OneFile(Flatten(cs)) : cs \in ChunkLists(MaxChunks)}
    /\ InitScalars

SpecParse == InitParse /\ [][ParseFileCall]_vars

\* One file holding one module whose source is any string over SourceAlphabet.
InitNormalize ==
    /\ entry = "parse_file"
    /\ fs \in {OneFile(ModuleDecl(<<"m">>, Assign(<<"source">>, s))) :
                   s \in Strings(SourceAlphabet, MaxSourceLen)
                         \cup {SrcLocal, SrcVpc, <<"single">>}}
    /\ InitScalars

SpecNormalize == InitNormalize /\ [][ParseFileCall]_vars

\* A directory tree on which parse_terraform_file (on main.tf) or
\* analyze_terraform_project is called, and then called again.
RerunTexts == {<<"res_logs", "mod_vpc">>, <<"res_data">>}

RerunFileSystems ==
    {t \in FileSystems :
        \A p \in DOMAIN t :
            t[p].readable => \E cs \in RerunTexts : t[p].content = Flatten(cs)}

InitTwice ==
    /\ entry \in {"project", "parse_file"}
    /\ fs \in RerunFileSystems
    /\ InitScalars

NextTwice ==
    \/ ProjectDiscover \/ ProjectParseFile \/ ProjectCount \/ ProjectReturn
    \/ ProjectCallAgain
    \/ ParseFileCall \/ ParseFileCallAgain

SpecTwice == InitTwice /\ [][NextTwice]_vars

----------------------------------------------------------------------------
(* What the claims are stated with: declarations as the configuration      *)
(* language defines them, found without the code's patterns.               *)

Punctuation == {sp, nl, dq, "{", "}", "=", "/", ".", ",", ":", "[", "]"}
IsWord(tok) == tok \notin Punctuation /\ tok \notin {"re", "source", "module"}

\* The text of the file of the single-file specifications.
Content == fs[MainTf].content

HasPrefixAt(t, p, x) ==
    p >= 1 /\ p + Len(x) - 1 <= Len(t) /\ SubSeq(t, p, p + Len(x) - 1) = x

\* resource "T" "N" {  with words T and N, at p.
WellFormedResourceAt(t, p) ==
    /\ p + 11 <= Len(t)
    /\ IsWord(t[p + 4]) /\ IsWord(t[p + 8])
    /\ HasPrefixAt(t, p, KwResource \o <<sp>> \o Q(<<t[p + 4]>>) \o <<sp>>
                           \o Q(<<t[p + 8]>>) \o <<sp, "{">>)

RecordsFor(rs, T, N) ==
    {i \in 1..Len(rs) :
        /\ ~rs[i].is_module
        /\ rs[i].resource_type = <<T>> /\ rs[i].resource_name = <<N>>
        /\ rs[i].resource_id = <<T, ".", N>>}

DeclarationsOf(t, T, N) ==
    {p \in 1..Len(t) : WellFormedResourceAt(t, p) /\ t[p + 4] = T /\ t[p + 8] = N}

\* module "N" {  with a word N, at p; the block opens at p + 6.
ModuleHeaderAt(t, p) ==
    /\ p + 6 <= Len(t) /\ IsWord(t[p + 3])
    /\ HasPrefixAt(t, p, <<"module", sp>> \o Q(<<t[p + 3]>>) \o <<sp, "{">>)

\* Brace depth of position j inside the block opened at b (1 = the block's own level).
DepthAt(t, b, j) ==
    Cardinality({i \in b..(j - 1) : t[i] = "{"})
    - Cardinality({i \in b..(j - 1) : t[i] = "}"})

\* The close brace matching the open brace at b; Len(t)+1 when it is missing.
MatchingClose(t, b) ==
    LET E == {e \in (b + 1)..Len(t) : t[e] = "}" /\ DepthAt(t, b, e) = 1}
    IN  IF E = {} THEN Len(t) + 1 ELSE Min(E)

\* source = "<s>"  at j (an assignment, not the tail of a longer word).
SourceAssignAt(t, j) ==
    /\ HasPrefixAt(t, j, <<"source", sp, "=", sp, dq>>)
    /\ ~TokenAt(t, j - 1, "re")
    /\ ScanUntil(t, j + 5, {dq}) <= Len(t)

SourceValueAt(t, j) == SubSeq(t, j + 5, ScanUntil(t, j + 5, {dq}) - 1)

\* The source assignments of the module block opened at b, at its own level
\* and inside its nested blocks.
OwnSources(t, b) ==
    {j \in (b + 1)..(MatchingClose(t, b) - 1) : SourceAssignAt(t, j) /\ DepthAt(t, b, j) = 1}
NestedSources(t, b) ==
    {j \in (b + 1)..(MatchingClose(t, b) - 1) : SourceAssignAt(t, j) /\ DepthAt(t, b, j) > 1}

ModuleRecordsNamed(rs, N) ==
    {i \in 1..Len(rs) : rs[i].is_module /\ rs[i].resource_name = <<N>>}

Returned == entry = "parse_file" /\ pc = "done"

----------------------------------------------------------------------------
(* Claims.                                                                 *)

\* C1: every well-formed declaration  resource "T" "N" { ... }  of the text
\* yields exactly one non-module record with resource_type = T,
\* resource_name = N and resource_id = "T.N" (as many such records as the
\* text has declarations of T.N), whatever surrounds it.
C1_EveryDeclarationYieldsItsRecord ==
    Returned =>
        \A p \in 1..Len(Content) :
            WellFormedResourceAt(Content, p) =>
                Cardinality(RecordsFor(result, Content[p + 4], Content[p + 8]))
                    = Cardinality(DeclarationsOf(Content, Content[p + 4], Content[p + 8]))

\* C2: every declaration  module "N" { source = "A/B/C" ... }  yields exactly
\* one module record with resource_name = N, resource_type = "B",
\* resource_id = "module.N" and module_source = "A/B/C".
C2_ModuleDeclarationYieldsItsRecord ==
    Returned =>
        \A p \in 1..Len(Content) :
            (/\ ModuleHeaderAt(Content, p)
             /\ SourceAssignAt(Content, p + 8)
             /\ Cardinality({q \in 1..Len(Content) :
                    ModuleHeaderAt(Content, q) /\ Content[q + 3] = Content[p + 3]}) = 1
             /\ LET s == SourceValueAt(Content, p + 8)
                IN  Len(s) = 5 /\ s[2] = "/" /\ s[4] = "/"
                    /\ IsWord(s[1]) /\ IsWord(s[3]) /\ IsWord(s[5]))
            => LET N  == Content[p + 3]
                   s  == SourceValueAt(Content, p + 8)
                   is == ModuleRecordsNamed(result, N)
               IN  /\ Cardinality(is) = 1
                   /\ \A i \in is :
                        /\ result[i].resource_type = <<s[3]>>
                        /\ result[i].resource_id = <<"module", ".", N>>
                        /\ result[i].module_source = s

\* The second-to-last '/'-separated component of s, or s when it has no '/',
\* read off the positions of the separators.
SlashesOf(s) == {i \in 1..Len(s) : s[i] = "/"}
ExpectedTypeName(s) ==
    IF SlashesOf(s) = {} THEN s
    ELSE LET last == Max(SlashesOf(s))
             prev == Max({0} \cup {i \in SlashesOf(s) : i < last})
         IN  SubSeq(s, prev + 1, last - 1)

\* The source string written in the file of the normalization specification.
WrittenSource == SourceValueAt(Content, 9)

C4_NestedSourceNotMisattributed ==
    Returned =>
        \A p \in 1..Len(Content) :
            (/\ ModuleHeaderAt(Content, p)
             /\ OwnSources(Content, p + 6) # {}
             /\ NestedSources(Content, p + 6) # {})
            => LET own == SourceValueAt(Content, Min(OwnSources(Content, p + 6)))
                   is  == ModuleRecordsNamed(result, Content[p + 3])
               IN  /\ is # {}
                   /\ \A i \in is : result[i].module_source = own

\* C5: the search for a module's source is bounded by the module's matching
\* braces: a record's source is never an assignment outside the block of a
\* module of that name, and a module whose own source assignment follows a
\* nested block still yields its record.
C5_SourceSearchBoundedByMatchingBraces ==
    Returned =>
        /\ \A i \in 1..Len(result) :
              result[i].is_module =>
                  \E p \in 1..Len(Content) :
                      /\ ModuleHeaderAt(Content, p)
                      /\ <<Content[p + 3]>> = result[i].resource_name
                      /\ \E j \in (p + 7)..(MatchingClose(Content, p + 6) - 1) :
                            /\ SourceAssignAt(Content, j)
                            /\ SourceValueAt(Content, j) = result[i].module_source
        /\ \A p \in 1..Len(Content) :
              (ModuleHeaderAt(Content, p) /\ OwnSources(Content, p + 6) # {})
              => ModuleRecordsNamed(result, Content[p + 3]) # {}

\* The texts from which one malformed declaration  resource "T" { }  is removed.
MalformedText == ChunkText("res_bad")
WithoutMalformed(t) ==
    {SubSeq(t, 1, i - 1) \o SubSeq(t, i + Len(MalformedText), Len(t)) :
        i \in {k \in 1..Len(t) : HasPrefixAt(t, k, MalformedText)}}

\* C9: a malformed declaration (resource, a quoted type, no quoted name)
\* yields no record, and the records of the file are those of the same file
\* without it.
C9_MalformedDeclarationIsAbsent ==
    Returned =>
        /\ \A i \in 1..Len(result) : result[i].resource_type # <<"bad_type">>
        /\ \A t \in WithoutMalformed(Content) : result = ExtractRecords(t, MainTf)

----------------------------------------------------------------------------
(* Claims about the directory scan and the front ends.                     *)

\* The records of the first k discovered files, unreadable files giving none.
RECURSIVE RecordsOfFirst(_)
RecordsOfFirst(k) ==
    IF k = 0 THEN << >>
    ELSE RecordsOfFirst(k - 1)
         \o (IF Readable(terraform_files[k])
             THEN ExtractRecords(fs[terraform_files[k]].content, terraform_files[k])
             ELSE << >>)

\* C6: an unreadable file gives no record and raises nothing; the files
\* before and after it give all their records, and no step of the scan ends
\* it before the aggregate.
C6_UnreadableFileIsIsolated ==
    entry = "project" =>
        /\ pc # "raised"
        /\ pc \in {"parse", "stats", "done"} =>
              /\ idx - 1 <= Len(terraform_files)
              /\ all_resources = RecordsOfFirst(idx - 1)
        /\ pc \in {"stats", "done"} => idx = Len(terraform_files) + 1
        /\ (pc = "parse" /\ idx <= Len(terraform_files)) =>
              ~parse_terraform_file(terraform_files[idx]).raised

C6_Witness ==
    /\ entry = "project" /\ pc = "done"
    /\ \E i, j \in 1..Len(terraform_files) :
          /\ i < j
          /\ ~Readable(terraform_files[i])
          /\ Readable(terraform_files[j])
          /\ \E k \in 1..Len(all_resources) :
                all_resources[k].file_path = terraform_files[j]

RECURSIVE SumOver(_, _)
SumOver(m, S) ==
    IF S = {} THEN 0
    ELSE LET x == CHOOSE y \in S : TRUE IN m[x] + SumOver(m, S \ {x})

NoDuplicates(xs) == \A i, j \in 1..Len(xs) : xs[i] = xs[j] => i = j
Elements(xs) == {xs[i] : i \in 1..Len(xs)}

NetTfJson == <<"sub", "/", "net", ".tf.json">>
ExampleTree ==
    /\ MainTf \in DOMAIN fs /\ NetTfJson \in DOMAIN fs
    /\ fs[MainTf] = [readable |-> TRUE, content |-> Flatten(<<"res_logs", "mod_vpc">>)]
    /\ fs[NetTfJson] = [readable |-> TRUE, content |-> Flatten(<<"res_data">>)]
    /\ Elements(terraform_files) = {MainTf, NetTfJson}

\* C7: resource_types maps each type name to the number of records of that
\* type (resources and modules alike): every count is at least 1, the counts
\* sum to resource_count = the number of records, and the keys are the
\* returned type names; the two-file example gives 3 records,
\* {aws_s3_bucket: 2, vpc: 1} and the types {aws_s3_bucket, vpc}.
C7_CountsByType ==
    (entry = "project" /\ pc \in {"stats", "done"}) =>
        /\ \A t \in DOMAIN resource_types :
              /\ resource_types[t] >= 1
              /\ resource_types[t]
                   = Cardinality({i \in 1..Len(all_resources) :
                                     all_resources[i].resource_type = t})
        /\ \A i \in 1..Len(all_resources) :
              all_resources[i].resource_type \in DOMAIN resource_types
        /\ SumOver(resource_types, DOMAIN resource_types) = Len(all_resources)
        /\ pc = "done" =>
              /\ resource_count = Len(all_resources)
              /\ Elements(result) = DOMAIN resource_types
              /\ ExampleTree =>
                    /\ resource_count = 3
                    /\ resource_types = (Bucket :> 2 @@ <<"vpc">> :> 1)
                    /\ Elements(result) = {Bucket, <<"vpc">>}

C7_Witness ==
    /\ entry = "project" /\ pc = "done" /\ ExampleTree
    /\ resource_count = 3
    /\ resource_types[Bucket] = 2

\* C8: the value an entry point hands back holds no string twice, whatever
\* the summarization service replied.
C8_ReturnedListHasNoDuplicates ==
    (entry \in {"project", "crew", "openai"} /\ pc = "done") => NoDuplicates(result)

NoMatchingFiles ==
    \A p \in DOMAIN fs : p[Len(p)] \notin {".tf", ".tf.json"}

NoDeclarationKeyword(t) ==
    \A i \in 1..Len(t) : t[i] # "module" /\ ~(t[i] = "re" /\ TokenAt(t, i + 1, "source"))

\* C10: a directory with no *.tf or *.tf.json file gives an empty file list,
\* no record, an empty resource_types and an empty returned list, and the crew
\* front end returns the empty list without calling the service; files
\* without any declaration give no record.
C10_EmptyInputsGiveEmptyResults ==
    /\ (pc # "start" /\ NoMatchingFiles) => terraform_files = << >>
    /\ (entry = "project" /\ pc = "done" /\ terraform_files = << >>) =>
          /\ all_resources = << >> /\ resource_count = 0
          /\ resource_types = EmptyMap /\ result = << >>
    /\ (entry = "crew" /\ pc # "start" /\ terraform_files = << >>) =>
          pc = "done" /\ result = << >> /\ llm_calls = 0
    /\ (/\ entry = "project" /\ pc = "done"
        /\ \A i \in 1..Len(terraform_files) :
              Readable(terraform_files[i])
                  => NoDeclarationKeyword(fs[terraform_files[i]].content))
          => all_resources = << >> /\ resource_types = EmptyMap /\ result = << >>

C10_Witness ==
    /\ entry = "project" /\ pc = "done"
    /\ DOMAIN fs # {} /\ NoMatchingFiles
    /\ resource_types = EmptyMap /\ result = << >>

\* resource_id and module_source as the kind of the record fixes them.
WellFormedRecord(r) ==
    /\ r.is_module =>
          /\ r.resource_id = <<"module", ".">> \o r.resource_name
          /\ r.module_source # None
    /\ ~r.is_module =>
          /\ r.resource_id = r.resource_type \o <<".">> \o r.resource_name
          /\ r.module_source = None

\* The records collected so far stay as they are, in place.
RecordsKept ==
    /\ Len(all_resources') >= Len(all_resources)
    /\ SubSeq(all_resources', 1, Len(all_resources)) = all_resources

\* C11: every record has resource_id = resource_type.resource_name when it is
\* not a module and module.resource_name when it is, and a module_source
\* exactly when it is a module; the aggregation leaves the records collected
\* by the scan as they were created.
C11_RecordInvariant ==
    /\ [](\A i \in 1..Len(all_resources) : WellFormedRecord(all_resources[i]))
    /\ [][entry = "project" => RecordsKept]_vars

C11_Witness ==
    /\ entry = "project" /\ pc = "done"
    /\ resource_types # EmptyMap
    /\ \E i, j \in 1..Len(all_resources) :
          all_resources[i].is_module /\ ~all_resources[j].is_module

----------------------------------------------------------------------------
(* C12: calling again on the same input.                                   *)

\* How many times each element occurs in a list.
Occurrences(xs) ==
    [x \in Elements(xs) |-> Cardinality({i \in 1..Len(xs) : xs[i] = x})]

\* Two outputs are the same output: the same records the same number of
\* times (in the same order when the files were listed in the same order),
\* the same count, the same count by type, and the same value handed back:
\* for parse_terraform_file the same list of records, for
\* analyze_terraform_project the same type names, each once (the order of
\* the records across files and of the type names carries no meaning).
SameOutput(a, b) ==
    /\ Occurrences(a.resources) = Occurrences(b.resources)
    /\ a.terraform_files = b.terraform_files => a.resources = b.resources
    /\ a.resource_count = b.resource_count
    /\ a.resource_types = b.resource_types
    /\ IF entry = "parse_file"
       THEN a.result = b.result
       ELSE /\ Elements(a.result) = Elements(b.result)
            /\ NoDuplicates(a.result) /\ NoDuplicates(b.result)

====
